---- MODULE Spec2Model ----
(***************************************************************************)
(* Model of web3-reg-agent/main.py: the crawl (fetch_and_extract and the   *)
(* link filter), the text normaliser, the two ranking strategies and the   *)
(* pipeline driver main().                                                 *)
(*                                                                         *)
(* A Python str is a sequence of characters; a character is a one-element  *)
(* string ("a", " ", "\n") and a non-ASCII code point is written by its    *)
(* number ("U7981").  A dict is a function on its keys, so a missing key   *)
(* is a name outside DOMAIN.                                               *)
(***************************************************************************)
EXTENDS Integers, Sequences, FiniteSets, TLC

VARIABLES
    pc,            \* position of the running code
    site,          \* which fetch_and_extract call of main is running (1 SFC, 2 SEC)
    pathIdx,       \* index of the `for path in entry_paths` loop
    links,         \* fetch_and_extract: links of the current entry page
    linkIdx,       \* index of the `for link in links` loop
    records,       \* fetch_and_extract: the local list `records`
    sfc_records,   \* main: result of the first crawl
    sec_records,   \* main: result of the second crawl
    all_records,   \* main: merged list (also the `records` argument of the rankers)
    saved,         \* every document written by save_json, in order
    jina_api_key,  \* os.getenv("JINA_API_KEY", "")
    embIdx,        \* index of the `for rec in records` loop of build_embeddings
    embFailed,     \* indices of all_records whose embed_with_jina call raised
    query,         \* the `query` argument of the rankers
    top_k,         \* the `top_k` argument of the rankers
    top_hits,      \* main: result of the ranking call
    query_vec,     \* search_with_jina: the embedding of the query (line 134)
    anchors,       \* argument of extract_links_by_keywords (soup.find_all("a"))
    base_url,      \* argument of extract_links_by_keywords
    keywords,      \* argument of extract_links_by_keywords
    entryTried,    \* <<site, path index>> of every entry page fetched so far
    entryOK,       \* ... of those whose fetch succeeded
    detailTried,   \* <<site, path index, link index>> of every detail page fetched
    detailOK       \* ... of those whose fetch succeeded

vars == <<pc, site, pathIdx, links, linkIdx, records, sfc_records, sec_records,
          all_records, saved, jina_api_key, embIdx, embFailed, query, top_k,
          top_hits, query_vec, anchors, base_url, keywords,
          entryTried, entryOK, detailTried, detailOK>>

----------------------------------------------------------------------------
(* Characters and strings                                                  *)

UpperChars == <<"A", "B", "C", "D", "E", "F", "G", "H", "I", "J", "K", "L", "M",
                "N", "O", "P", "Q", "R", "S", "T", "U", "V", "W", "X", "Y", "Z">>

LowerChars == <<"a", "b", "c", "d", "e", "f", "g", "h", "i", "j", "k", "l", "m",
                "n", "o", "p", "q", "r", "s", "t", "u", "v", "w", "x", "y", "z">>

Digits == {"0", "1", "2", "3", "4", "5", "6", "7", "8", "9"}

Whitespace == {" ", "\n", "\t"}

\* str.lower() on one character
LowerChar(c) ==
    IF \E i \in 1..Len(UpperChars) : UpperChars[i] = c
    THEN LowerChars[CHOOSE i \in 1..Len(UpperChars) : UpperChars[i] = c]
    ELSE c

\* str.lower()
Lower(s) == [i \in 1..Len(s) |-> LowerChar(s[i])]

\* `q in t` on strings
Contains(t, q) ==
    \E i \in 0..(Len(t) - Len(q)) : SubSeq(t, i + 1, i + Len(q)) = q

\* str.strip(): drop leading and trailing whitespace
Strip(s) ==
    LET keep == {i \in 1..Len(s) : s[i] \notin Whitespace}
    IN  IF keep = {} THEN <<>>
        ELSE LET lo == CHOOSE i \in keep : \A j \in keep : i <= j
                 hi == CHOOSE i \in keep : \A j \in keep : j <= i
             IN  SubSeq(s, lo, hi)

RECURSIVE CountFrom_Overlapping(_, _, _)
\* CountFrom stepping one character after a match: occurrences may overlap
CountFrom_Overlapping(t, q, i) ==
    IF i + Len(q) - 1 > Len(t) THEN 0
    ELSE IF SubSeq(t, i, i + Len(q) - 1) = q
         THEN 1 + CountFrom_Overlapping(t, q, i + 1)
         ELSE CountFrom_Overlapping(t, q, i + 1)

RECURSIVE CountFrom(_, _, _)
\* the scan of str.count: leftmost match, then continue after it
CountFrom(t, q, i) ==
    IF i + Len(q) - 1 > Len(t) THEN 0
    ELSE IF SubSeq(t, i, i + Len(q) - 1) = q
         THEN 1 + CountFrom(t, q, i + Len(q))
         ELSE CountFrom(t, q, i + 1)

\* str.count(q); the empty pattern matches between all characters
Count(t, q) == IF q = <<>> THEN Len(t) + 1 ELSE CountFrom(t, q, 1)

----------------------------------------------------------------------------
(* urljoin, for the reference forms used by the crawl: an absolute URL, an *)
(* absolute path and a relative path (no dot segments, query or fragment)  *)

HasScheme(ref) ==
    \E i \in 2..Len(ref) :
        /\ ref[i] = ":"
        /\ \A j \in 1..(i - 1) : ref[j] \notin {"/", ":", "?", "#"}

\* index of the first character of the path of an absolute URL (Len + 1 if none)
PathStart(url) ==
    LET colon == CHOOSE i \in 2..Len(url) : url[i] = ":" /\ \A j \in 1..(i - 1) : url[j] # ":"
        slashes == {i \in (colon + 3)..Len(url) : url[i] = "/"}
    IN  IF slashes = {} THEN Len(url) + 1
        ELSE CHOOSE i \in slashes : \A j \in slashes : i <= j

Origin(url) == SubSeq(url, 1, PathStart(url) - 1)

\* the base path up to and including its last "/" ("/" when the path is empty)
BaseDir(url) ==
    LET slashes == {i \in PathStart(url)..Len(url) : url[i] = "/"}
    IN  IF slashes = {} THEN <<"/">>
        ELSE SubSeq(url, PathStart(url),
                    CHOOSE i \in slashes : \A j \in slashes : j <= i)

Urljoin(base, ref) ==
    IF ref = <<>> THEN base
    ELSE IF HasScheme(ref) THEN ref
    ELSE IF ref[1] = "/" THEN Origin(base) \o ref
    ELSE Origin(base) \o BaseDir(base) \o ref

----------------------------------------------------------------------------
(* Link Filter                                                             *)

\* a.get("href")
HasHref(a) == "href" \in DOMAIN a /\ a.href # <<>>

\* lines 31, 35-38: the Link of one anchor
LinkOf(a, base) == [title |-> Strip(a.text), url |-> Urljoin(base, a.href)]

\* Matches without kw.lower(): a keyword with a capital never matches
Matches_CaseSensitive(a, base, kws) ==
    LET link == LinkOf(a, base)
        text_to_check == Lower(link.title \o <<" ">> \o link.url)
    IN  \E i \in 1..Len(kws) : Contains(text_to_check, kws[i])

\* line 36-37: the match predicate of one anchor
Matches(a, base, kws) ==
    LET link == LinkOf(a, base)
        text_to_check == Lower(link.title \o <<" ">> \o link.url)
    IN  \E i \in 1..Len(kws) : Contains(text_to_check, Lower(kws[i]))

RECURSIVE extract_links_by_keywords(_, _, _)
extract_links_by_keywords(as, base, kws) ==
    IF as = <<>> THEN <<>>
    ELSE LET a == Head(as)
             rest == extract_links_by_keywords(Tail(as), base, kws)
         IN  IF ~HasHref(a) THEN rest
             ELSE IF Matches(a, base, kws) THEN <<LinkOf(a, base)>> \o rest
             ELSE rest

----------------------------------------------------------------------------
(* Text Normalizer                                                         *)

RECURSIVE CollapseFrom(_, _)
\* re.sub(r"\s+", " ", text): every maximal whitespace run becomes one space
CollapseFrom(s, i) ==
    IF i > Len(s) THEN <<>>
    ELSE IF s[i] \in Whitespace
         THEN IF i > 1 /\ s[i - 1] \in Whitespace
              THEN CollapseFrom(s, i + 1)
              ELSE <<" ">> \o CollapseFrom(s, i + 1)
         ELSE <<s[i]>> \o CollapseFrom(s, i + 1)

clean_text(text) == Strip(CollapseFrom(text, 1))

\* \d{4}[-/]\d{2}[-/]\d{2} matches at position i
DateAt(s, i) ==
    /\ i + 9 <= Len(s)
    /\ \A j \in {0, 1, 2, 3, 5, 6, 8, 9} : s[i + j] \in Digits
    /\ s[i + 4] \in {"-", "/"}
    /\ s[i + 7] \in {"-", "/"}

extract_date(text) ==
    LET hits == {i \in 1..Len(text) : DateAt(text, i)}
    IN  IF hits = {} THEN <<>>
        ELSE LET i == CHOOSE h \in hits : \A g \in hits : h <= g
             IN  SubSeq(text, i, i + 9)

\* lines 60-72: the Record built from a link and the visible text of its page
MakeRecord(link, base, text) ==
    [title |-> link.title, url |-> link.url, source |-> base,
     raw_text |-> text, clean_text |-> clean_text(text),
     date |-> extract_date(clean_text(text))]

BaseFields == {"title", "url", "source", "raw_text", "clean_text", "date"}

----------------------------------------------------------------------------
(* Similarity Ranker                                                       *)

Min(a, b) == IF a <= b THEN a ELSE b

Max(a, b) == IF a >= b THEN a ELSE b

RECURSIVE DotZip(_, _)
\* sum(a * b for a, b in zip(vec_a, vec_b)): zip stops at the shorter vector
DotZip(a, b) ==
    IF a = <<>> \/ b = <<>> THEN 0
    ELSE Head(a) * Head(b) + DotZip(Tail(a), Tail(b))

RECURSIVE SumSq(_)
SumSq(v) == IF v = <<>> THEN 0 ELSE Head(v) * Head(v) + SumSq(Tail(v))

Sign(x) == IF x > 0 THEN 1 ELSE IF x < 0 THEN -1 ELSE 0

(* cosine_similarity.  The float dot / (norm_a * norm_b) is represented by  *)
(* its signed square in quarters, sign(dot) * 4 * dot^2 / (|a|^2 * |b|^2),  *)
(* which orders exactly as the cosine does and is 0 exactly when it is.     *)
(* The embedding components of the model are in -1..1 and the vectors at    *)
(* most two long, so the division is exact.                                 *)
cosine_similarity(vec_a, vec_b) ==
    IF vec_a = <<>> \/ vec_b = <<>> THEN 0
    ELSE LET dot == DotZip(vec_a, vec_b)
             sq_a == SumSq(vec_a)
             sq_b == SumSq(vec_b)
         IN  IF sq_a = 0 \/ sq_b = 0 THEN 0
             ELSE Sign(dot) * ((4 * dot * dot) \div (sq_a * sq_b))

\* dict.get(key, default)
Get(rec, key, default) == IF key \in DOMAIN rec THEN rec[key] ELSE default

\* {**rec, "score": s}: a new dict, the argument is not touched
WithScore(rec, s) ==
    [f \in DOMAIN rec \cup {"score"} |-> IF f = "score" THEN s ELSE rec[f]]

\* rec["embedding"] = e, in place
WithEmbedding(rec, e) ==
    [f \in DOMAIN rec \cup {"embedding"} |-> IF f = "embedding" THEN e ELSE rec[f]]

RECURSIVE InsertDesc_Unstable(_, _)
\* InsertDesc placing x before the elements with the same score
InsertDesc_Unstable(sorted, x) ==
    IF sorted = <<>> THEN <<x>>
    ELSE IF Head(sorted).score > x.score
         THEN <<Head(sorted)>> \o InsertDesc_Unstable(Tail(sorted), x)
         ELSE <<x>> \o sorted

RECURSIVE InsertDesc(_, _)
\* place x behind every element whose score is not smaller
InsertDesc(sorted, x) ==
    IF sorted = <<>> THEN <<x>>
    ELSE IF Head(sorted).score >= x.score
         THEN <<Head(sorted)>> \o InsertDesc(Tail(sorted), x)
         ELSE <<x>> \o sorted

RECURSIVE SortDesc(_)
\* list.sort(key=score, reverse=True): stable, equal scores keep their order
SortDesc(s) ==
    IF s = <<>> THEN <<>>
    ELSE InsertDesc(SortDesc(SubSeq(s, 1, Len(s) - 1)), s[Len(s)])

\* s[:k], a negative k counts from the end
Slice(s, k) ==
    IF k >= 0 THEN SubSeq(s, 1, Min(k, Len(s)))
    ELSE SubSeq(s, 1, Max(Len(s) + k, 0))

\* lines 135-138, with qv the result of line 134
JinaScored(recs, qv) ==
    [i \in 1..Len(recs) |->
        WithScore(recs[i], cosine_similarity(qv, Get(recs[i], "embedding", <<>>)))]

search_with_jina(recs, qv, k) == Slice(SortDesc(JinaScored(recs, qv)), k)

\* lines 145-150
KeywordScore(rec, q) == Count(Lower(Get(rec, "clean_text", <<>>)), Lower(q))

KeywordScored(recs, q) ==
    [i \in 1..Len(recs) |-> WithScore(recs[i], KeywordScore(recs[i], q))]

keyword_fallback(recs, q, k) == Slice(SortDesc(KeywordScored(recs, q)), k)

----------------------------------------------------------------------------
(* The configuration hardcoded in main()                                   *)

main_keywords ==
    << <<"w", "e", "b", "3">>,
       <<"v", "i", "r", "t", "u", "a", "l", " ", "a", "s", "s", "e", "t">>,
       <<"U865A", "U62DF", "U8D44", "U4EA7">>,
       <<"c", "r", "y", "p", "t", "o">>,
       <<"s", "t", "a", "b", "l", "e", "c", "o", "i", "n">>,
       <<"U6570", "U5B57", "U8D44", "U4EA7">> >>

sfc_base == <<"h", "t", "t", "p", "s", ":", "/", "/", "w", "w", "w", ".", "s", "f", "c", ".", "h", "k">>

sfc_entries ==
    << <<"/", "e", "n", "/", "N", "e", "w", "s", "-", "a", "n", "d", "-", "a", "n", "n", "o", "u", "n", "c", "e", "m", "e", "n", "t", "s", "/", "P", "o", "l", "i", "c", "y", "-", "s", "t", "a", "t", "e", "m", "e", "n", "t", "s">>,
       <<"/", "e", "n", "/", "N", "e", "w", "s", "-", "a", "n", "d", "-", "a", "n", "n", "o", "u", "n", "c", "e", "m", "e", "n", "t", "s", "/", "A", "n", "n", "o", "u", "n", "c", "e", "m", "e", "n", "t", "s">> >>

sec_base == <<"h", "t", "t", "p", "s", ":", "/", "/", "w", "w", "w", ".", "s", "e", "c", ".", "g", "o", "v">>

sec_entries ==
    << <<"/", "n", "e", "w", "s", "/", "p", "r", "e", "s", "s", "r", "e", "l", "e", "a", "s", "e", "s">>,
       <<"/", "n", "e", "w", "s", "/", "p", "u", "b", "l", "i", "c", "-", "s", "t", "a", "t", "e", "m", "e", "n", "t", "s">> >>

main_query == <<"U7981", "U6B62", " ", "U7A33", "U5B9A", "U5E01">>

main_top_k == 5

\* the arguments of the two fetch_and_extract calls of main (lines 169, 172)
SiteBase(s) == IF s = 1 THEN sfc_base ELSE sec_base

SiteEntries(s) == IF s = 1 THEN sfc_entries ELSE sec_entries

----------------------------------------------------------------------------
(* The web the crawl runs against: what a successful fetch_html returns,   *)
(* already parsed (the anchors of an entry page, the visible text of a     *)
(* detail page).  Whether a fetch succeeds is decided at each fetch.       *)

EntryPage(entry_url) ==
    IF entry_url = Urljoin(sfc_base, sfc_entries[1]) THEN
        << [text |-> <<" ", "W", "e", "b", "3", " ", "P", "o", "l", "i", "c", "y", " ">>,
            href |-> <<"/", "a">>],
           [text |-> <<"O", "t", "h", "e", "r", " ", "N", "e", "w", "s">>,
            href |-> <<"/", "b">>],
           [text |-> <<"C", "r", "y", "p", "t", "o">>],
           [text |-> <<>>, href |-> <<"/", "c", "r", "y", "p", "t", "o">>] >>
    ELSE IF entry_url = Urljoin(sfc_base, sfc_entries[2]) THEN
        << [text |-> <<"W", "e", "b", "3", " ", "P", "o", "l", "i", "c", "y">>,
            href |-> <<"h", "t", "t", "p", "s", ":", "/", "/", "w", "w", "w", ".", "s", "f", "c", ".", "h", "k", "/", "a">>] >>
    ELSE IF entry_url = Urljoin(sec_base, sec_entries[1]) THEN
        << [text |-> <<"x">>, href |-> <<>>],
           [text |-> <<"S", "t", "a", "b", "l", "e", "c", "o", "i", "n", " ", "r", "u", "l", "e">>,
            href |-> <<"s", "1">>] >>
    ELSE
        << [text |-> <<"U6570", "U5B57", "U8D44", "U4EA7">>, href |-> <<"/", "d">>] >>

PageText(url) ==
    IF url = <<"h", "t", "t", "p", "s", ":", "/", "/", "w", "w", "w", ".", "s", "f", "c", ".", "h", "k", "/", "a">> THEN
        <<"W", "e", "b", "3", "\n", "\n", " ", "r", "u", "l", "e", "s", "\t", "2", "0", "2", "4", "/", "0", "5", "/", "0", "1", " ">>
    ELSE IF url = <<"h", "t", "t", "p", "s", ":", "/", "/", "w", "w", "w", ".", "s", "f", "c", ".", "h", "k", "/", "c", "r", "y", "p", "t", "o">> THEN
        <<"U7981", "U6B62", " ", "U7A33", "U5B9A", "U5E01", "\n", "U7981", "U6B62", " ", " ", "U7A33", "U5B9A", "U5E01">>
    ELSE IF url = <<"h", "t", "t", "p", "s", ":", "/", "/", "w", "w", "w", ".", "s", "e", "c", ".", "g", "o", "v", "/", "s", "1">> THEN
        <<"S", "t", "a", "b", "l", "e", "c", "o", "i", "n", " ", "2", "0", "2", "3", "-", "1", "-", "5">>
    ELSE
        <<"U7A33", "U5B9A", "U5E01", " ", "U7981", "U6B62", " ", "U65B0", "U89C4", " ", "2", "0", "2", "4", "-", "0", "5", "-", "0", "1", " ", "U53D1", "U5E03">>

\* what a successful embed_with_jina call can return (data[0].embedding)
EmbedVectors == {<<1, 0>>, <<1, 1>>, <<0, 0>>, <<-1>>}

----------------------------------------------------------------------------
(* Crawl Orchestrator: fetch_and_extract, one action per fetch             *)

crawlVars == <<site, pathIdx, links, linkIdx, records, anchors, base_url, keywords,
               entryTried, entryOK, detailTried, detailOK>>

mainVars == <<sfc_records, sec_records, all_records, saved, jina_api_key,
              embIdx, embFailed, query, top_k, top_hits, query_vec>>

\* FetchEntryFail with `break` in place of `continue`: the failure ends the crawl
FetchEntryFail_Abort ==
    /\ pc = "crawl"
    /\ pathIdx <= Len(SiteEntries(site))
    /\ entryTried' = entryTried \cup {<<site, pathIdx>>}
    /\ pathIdx' = Len(SiteEntries(site)) + 1
    /\ UNCHANGED <<pc, site, links, linkIdx, records, anchors, base_url, keywords,
                   entryOK, detailTried, detailOK>>
    /\ UNCHANGED mainVars

\* lines 48-51: fetch_html(entry_url) raises; warn and continue with the next path
FetchEntryFail ==
    /\ pc = "crawl"
    /\ pathIdx <= Len(SiteEntries(site))
    /\ entryTried' = entryTried \cup {<<site, pathIdx>>}
    /\ pathIdx' = pathIdx + 1
    /\ UNCHANGED <<pc, site, links, linkIdx, records, anchors, base_url, keywords,
                   entryOK, detailTried, detailOK>>
    /\ UNCHANGED mainVars

\* lines 46-53: the entry page is fetched, parsed and filtered
FetchEntryOk ==
    /\ pc = "crawl"
    /\ pathIdx <= Len(SiteEntries(site))
    /\ LET entry_url == Urljoin(SiteBase(site), SiteEntries(site)[pathIdx])
       IN  /\ anchors' = EntryPage(entry_url)
           /\ base_url' = SiteBase(site)
           /\ keywords' = main_keywords
           /\ links' = extract_links_by_keywords(EntryPage(entry_url), SiteBase(site),
                                                 main_keywords)
    /\ linkIdx' = 1
    /\ entryTried' = entryTried \cup {<<site, pathIdx>>}
    /\ entryOK' = entryOK \cup {<<site, pathIdx>>}
    /\ pc' = "links"
    /\ UNCHANGED <<site, pathIdx, records, detailTried, detailOK>>
    /\ UNCHANGED mainVars

\* FetchDetailFail that still appends what it knows of the link
FetchDetailFail_Partial ==
    /\ pc = "links"
    /\ linkIdx <= Len(links)
    /\ records' = Append(records,
                         [title |-> links[linkIdx].title, url |-> links[linkIdx].url,
                          source |-> SiteBase(site)])
    /\ detailTried' = detailTried \cup {<<site, pathIdx, linkIdx>>}
    /\ linkIdx' = linkIdx + 1
    /\ UNCHANGED <<pc, site, pathIdx, links, anchors, base_url, keywords,
                   entryTried, entryOK, detailOK>>
    /\ UNCHANGED mainVars

\* lines 55-59: fetch_html(link["url"]) raises; warn and continue with the next link
FetchDetailFail ==
    /\ pc = "links"
    /\ linkIdx <= Len(links)
    /\ detailTried' = detailTried \cup {<<site, pathIdx, linkIdx>>}
    /\ linkIdx' = linkIdx + 1
    /\ UNCHANGED <<pc, site, pathIdx, links, records, anchors, base_url, keywords,
                   entryTried, entryOK, detailOK>>
    /\ UNCHANGED mainVars

\* lines 56-72: the detail page is fetched, its text cleaned, a Record appended
FetchDetailOk ==
    /\ pc = "links"
    /\ linkIdx <= Len(links)
    /\ records' = Append(records,
                         MakeRecord(links[linkIdx], SiteBase(site),
                                    PageText(links[linkIdx].url)))
    /\ detailTried' = detailTried \cup {<<site, pathIdx, linkIdx>>}
    /\ detailOK' = detailOK \cup {<<site, pathIdx, linkIdx>>}
    /\ linkIdx' = linkIdx + 1
    /\ UNCHANGED <<pc, site, pathIdx, links, anchors, base_url, keywords,
                   entryTried, entryOK>>
    /\ UNCHANGED mainVars

\* line 54: the links of this entry page are exhausted, on to the next path
NextPath ==
    /\ pc = "links"
    /\ linkIdx > Len(links)
    /\ pathIdx' = pathIdx + 1
    /\ pc' = "crawl"
    /\ UNCHANGED <<site, links, linkIdx, records, anchors, base_url, keywords,
                   entryTried, entryOK, detailTried, detailOK>>
    /\ UNCHANGED mainVars

\* line 73 and lines 169, 172: fetch_and_extract returns its records to main
CrawlReturn ==
    /\ pc = "crawl"
    /\ pathIdx > Len(SiteEntries(site))
    /\ IF site = 1
       THEN /\ sfc_records' = records
            /\ site' = 2
            /\ pathIdx' = 1
            /\ records' = <<>>
            /\ UNCHANGED <<pc, sec_records>>
       ELSE /\ sec_records' = records
            /\ pc' = "merge"
            /\ UNCHANGED <<site, pathIdx, records, sfc_records>>
    /\ UNCHANGED <<links, linkIdx, anchors, base_url, keywords,
                   entryTried, entryOK, detailTried, detailOK>>
    /\ UNCHANGED <<all_records, saved, jina_api_key, embIdx, embFailed, query, top_k,
                   top_hits, query_vec>>

----------------------------------------------------------------------------
(* Pipeline Driver: main                                                   *)

\* Merge with the two sites in the wrong order
Merge_Swapped ==
    /\ pc = "merge"
    /\ all_records' = sec_records \o sfc_records
    /\ pc' = "save"
    /\ UNCHANGED crawlVars
    /\ UNCHANGED <<sfc_records, sec_records, saved, jina_api_key, embIdx, embFailed,
                   query, top_k, top_hits, query_vec>>

\* line 175
Merge ==
    /\ pc = "merge"
    /\ all_records' = sfc_records \o sec_records
    /\ pc' = "save"
    /\ UNCHANGED crawlVars
    /\ UNCHANGED <<sfc_records, sec_records, saved, jina_api_key, embIdx, embFailed,
                   query, top_k, top_hits, query_vec>>

\* lines 179-186: save_json writes the merged list, then the strategy is chosen
Save ==
    /\ pc = "save"
    /\ saved' = Append(saved, all_records)
    /\ embIdx' = 1
    /\ pc' = IF jina_api_key # "" THEN "embed" ELSE "fallback"
    /\ UNCHANGED crawlVars
    /\ UNCHANGED <<sfc_records, sec_records, all_records, jina_api_key, embFailed,
                   query, top_k, top_hits, query_vec>>

(* all_records holds the very dicts of sfc_records and sec_records, so an   *)
(* in-place update of all_records[i] shows in the list it came from         *)
SetEmbedding(i, e) ==
    /\ all_records' = [all_records EXCEPT ![i] = WithEmbedding(@, e)]
    /\ sfc_records' = [j \in 1..Len(sfc_records) |->
                          IF j = i THEN WithEmbedding(sfc_records[j], e)
                          ELSE sfc_records[j]]
    /\ sec_records' = [j \in 1..Len(sec_records) |->
                          IF j + Len(sfc_records) = i
                          THEN WithEmbedding(sec_records[j], e)
                          ELSE sec_records[j]]

\* line 126: embed_with_jina(rec["clean_text"]) returns a vector
BuildEmbedOk ==
    /\ pc = "embed"
    /\ embIdx <= Len(all_records)
    /\ \E v \in EmbedVectors : SetEmbedding(embIdx, v)
    /\ embIdx' = embIdx + 1
    /\ UNCHANGED crawlVars
    /\ UNCHANGED <<pc, saved, jina_api_key, embFailed, query, top_k, top_hits,
                   query_vec>>

\* BuildEmbedFail without the try: the first failure ends the loop
BuildEmbedFail_Abort ==
    /\ pc = "embed"
    /\ embIdx <= Len(all_records)
    /\ embFailed' = embFailed \cup {embIdx}
    /\ embIdx' = Len(all_records) + 1
    /\ UNCHANGED crawlVars
    /\ UNCHANGED <<pc, sfc_records, sec_records, all_records, saved, jina_api_key,
                   query, top_k, top_hits, query_vec>>

\* lines 127-129: embed_with_jina raises; the record gets an empty embedding
BuildEmbedFail ==
    /\ pc = "embed"
    /\ embIdx <= Len(all_records)
    /\ SetEmbedding(embIdx, <<>>)
    /\ embFailed' = embFailed \cup {embIdx}
    /\ embIdx' = embIdx + 1
    /\ UNCHANGED crawlVars
    /\ UNCHANGED <<pc, saved, jina_api_key, query, top_k, top_hits, query_vec>>

\* line 124: build_embeddings has visited every record and returns
BuildEmbeddingsReturn ==
    /\ pc = "embed"
    /\ embIdx > Len(all_records)
    /\ pc' = "search"
    /\ UNCHANGED crawlVars
    /\ UNCHANGED mainVars

\* SearchWithJinaOk writing rec["score"] into the records it was given
SearchWithJinaOk_InPlace ==
    /\ pc = "search"
    /\ \E v \in EmbedVectors :
           /\ query_vec' = v
           /\ all_records' = JinaScored(all_records, v)
           /\ top_hits' = search_with_jina(all_records, v, top_k)
    /\ pc' = "print"
    /\ UNCHANGED crawlVars
    /\ UNCHANGED <<sfc_records, sec_records, saved, jina_api_key,
                   embIdx, embFailed, query, top_k>>

\* lines 134-140 (line 189): the query is embedded, the records scored and sorted
SearchWithJinaOk ==
    /\ pc = "search"
    /\ \E v \in EmbedVectors :
           /\ query_vec' = v
           /\ top_hits' = search_with_jina(all_records, v, top_k)
    /\ pc' = "print"
    /\ UNCHANGED crawlVars
    /\ UNCHANGED <<sfc_records, sec_records, all_records, saved, jina_api_key,
                   embIdx, embFailed, query, top_k>>

\* line 134: embed_with_jina(query) raises; nothing in search_with_jina or main
\* catches it, the exception leaves main
SearchWithJinaFail ==
    /\ pc = "search"
    /\ pc' = "crashed"
    /\ UNCHANGED crawlVars
    /\ UNCHANGED mainVars

\* KeywordFallback writing rec["score"] into the records it was given
KeywordFallback_InPlace ==
    /\ pc = "fallback"
    /\ all_records' = KeywordScored(all_records, query)
    /\ top_hits' = keyword_fallback(all_records, query, top_k)
    /\ pc' = "print"
    /\ UNCHANGED crawlVars
    /\ UNCHANGED <<sfc_records, sec_records, saved, jina_api_key,
                   embIdx, embFailed, query, top_k, query_vec>>

\* lines 145-152 (line 192)
KeywordFallback ==
    /\ pc = "fallback"
    /\ top_hits' = keyword_fallback(all_records, query, top_k)
    /\ pc' = "print"
    /\ UNCHANGED crawlVars
    /\ UNCHANGED <<sfc_records, sec_records, all_records, saved, jina_api_key,
                   embIdx, embFailed, query, top_k, query_vec>>

\* lines 195-197: the hits are printed and main returns
PrintResults ==
    /\ pc = "print"
    /\ pc' = "done"
    /\ UNCHANGED crawlVars
    /\ UNCHANGED mainVars

\* the state at the first line of main; the environment may hold a key or not
Init ==
    /\ pc = "crawl"
    /\ site = 1
    /\ pathIdx = 1
    /\ links = <<>>
    /\ linkIdx = 1
    /\ records = <<>>
    /\ sfc_records = <<>>
    /\ sec_records = <<>>
    /\ all_records = <<>>
    /\ saved = <<>>
    /\ jina_api_key \in {"", "key"}
    /\ embIdx = 1
    /\ embFailed = {}
    /\ query = main_query
    /\ top_k = main_top_k
    /\ top_hits = <<>>
    /\ query_vec = <<>>
    /\ anchors = <<>>
    /\ base_url = <<>>
    /\ keywords = <<>>
    /\ entryTried = {}
    /\ entryOK = {}
    /\ detailTried = {}
    /\ detailOK = {}

Next ==
    \/ FetchEntryFail
    \/ FetchEntryOk
    \/ FetchDetailFail
    \/ FetchDetailOk
    \/ NextPath
    \/ CrawlReturn
    \/ Merge
    \/ Save
    \/ BuildEmbedOk
    \/ BuildEmbedFail
    \/ BuildEmbeddingsReturn
    \/ SearchWithJinaOk
    \/ SearchWithJinaFail
    \/ KeywordFallback
    \/ PrintResults

Spec == Init /\ [][Next]_vars

----------------------------------------------------------------------------
(* The rankers on their own: search_with_jina and keyword_fallback called  *)
(* with any record list, query and top_k                                   *)

MaxRecs == 3

MaxTopK == 4

\* the top_k arguments tried: a few negative ones, zero, and up to MaxTopK
TopKs == (0 - 2)..MaxTopK

RankRecords ==
    { [title |-> <<"p">>, clean_text |-> <<"a", " ", "b", " ", "A", " ", "B">>,
       embedding |-> <<1, 0>>],
      [title |-> <<"q">>, clean_text |-> <<"A", "b">>, embedding |-> <<1, 1>>],
      [title |-> <<"r">>, clean_text |-> <<"b", " ", "a">>, embedding |-> <<>>],
      [title |-> <<"s">>, clean_text |-> <<"a", "a", "a">>],
      [title |-> <<"t">>, clean_text |-> <<"a", "a", "a", "a", "b">>, embedding |-> <<-1>>] }

RankQueries == { <<"a", "b">>, <<"A", " ", "b">>, <<"a", "a">>, <<>> }

RankInputs == UNION { [1..n -> RankRecords] : n \in 0..MaxRecs }

InitRank ==
    /\ all_records \in RankInputs
    /\ top_k \in TopKs
    /\ \/ pc = "search" /\ jina_api_key = "key" /\ query = main_query
       \/ pc = "fallback" /\ jina_api_key = "" /\ query \in RankQueries
    /\ site = 1
    /\ pathIdx = 1
    /\ links = <<>>
    /\ linkIdx = 1
    /\ records = <<>>
    /\ sfc_records = <<>>
    /\ sec_records = <<>>
    /\ saved = <<>>
    /\ embIdx = 1
    /\ embFailed = {}
    /\ top_hits = <<>>
    /\ query_vec = <<>>
    /\ anchors = <<>>
    /\ base_url = <<>>
    /\ keywords = <<>>
    /\ entryTried = {}
    /\ entryOK = {}
    /\ detailTried = {}
    /\ detailOK = {}

NextRank ==
    \/ SearchWithJinaOk
    \/ SearchWithJinaFail
    \/ KeywordFallback
    \/ PrintResults

SpecRank == InitRank /\ [][NextRank]_vars

----------------------------------------------------------------------------
(* The Link Filter on its own: extract_links_by_keywords called with any   *)
(* anchor list, base URL and keyword list                                  *)

MaxAnchors == 3

FilterAnchors ==
    { [text |-> <<"W", "e", "b", "3">>, href |-> <<"/", "a">>],
      [text |-> <<" ", "w", "e", "b", "3", "\n">>, href |-> <<"/", "a">>],
      [text |-> <<"O", "t", "h", "e", "r">>, href |-> <<"/", "b">>],
      [text |-> <<"w", "e", "b", "3">>],
      [text |-> <<"w", "e", "b", "3">>, href |-> <<>>],
      [text |-> <<"N">>, href |-> <<"W", "E", "B", "3">>],
      [text |-> <<"w", "e">>, href |-> <<"h", ":", "/", "/", "o", "/", "b", "3">>] }

FilterBases == { <<"h", ":", "/", "/", "e">>,
                 <<"h", ":", "/", "/", "e", "/", "p", "/", "q">> }

FilterKeywords ==
    { << <<"w", "e", "b", "3">> >>,
      << <<"x">>, <<"W", "E", "B">> >>,
      << <<"e", "r", " ", "h">>, <<"/", "p", "/">> >>,
      << <<>> >>,
      << >> }

FilterInputs == UNION { [1..n -> FilterAnchors] : n \in 0..MaxAnchors }

\* lines 29-39: one call of extract_links_by_keywords
FilterCall ==
    /\ pc = "filter"
    /\ links' = extract_links_by_keywords(anchors, base_url, keywords)
    /\ pc' = "filtered"
    /\ UNCHANGED <<site, pathIdx, linkIdx, records, anchors, base_url, keywords,
                   entryTried, entryOK, detailTried, detailOK>>
    /\ UNCHANGED mainVars

InitFilter ==
    /\ pc = "filter"
    /\ anchors \in FilterInputs
    /\ base_url \in FilterBases
    /\ keywords \in FilterKeywords
    /\ site = 1
    /\ pathIdx = 1
    /\ links = <<>>
    /\ linkIdx = 1
    /\ records = <<>>
    /\ sfc_records = <<>>
    /\ sec_records = <<>>
    /\ all_records = <<>>
    /\ saved = <<>>
    /\ jina_api_key = ""
    /\ embIdx = 1
    /\ embFailed = {}
    /\ query = main_query
    /\ top_k = main_top_k
    /\ top_hits = <<>>
    /\ query_vec = <<>>
    /\ entryTried = {}
    /\ entryOK = {}
    /\ detailTried = {}
    /\ detailOK = {}

NextFilter == FilterCall

SpecFilter == InitFilter /\ [][NextFilter]_vars

----------------------------------------------------------------------------
(* Properties of the crawl                                                 *)

AllEntries == {<<s, p>> : s \in {1, 2}, p \in {1, 2}}

\* the links the Link Filter returns for each entry page of the web
SiteLinksTable ==
    [e \in AllEntries |->
        extract_links_by_keywords(EntryPage(Urljoin(SiteBase(e[1]), SiteEntries(e[1])[e[2]])),
                                  SiteBase(e[1]), main_keywords)]

SiteLinks(s, p) == SiteLinksTable[<<s, p>>]

RECURSIVE DiscoveryFrom(_, _)
\* the (site, entry path, link) triples in discovery order, from entry <<s, p>> on
DiscoveryFrom(s, p) ==
    IF s > 2 THEN <<>>
    ELSE IF p > Len(SiteEntries(s)) THEN DiscoveryFrom(s + 1, 1)
    ELSE [l \in 1..Len(SiteLinks(s, p)) |-> <<s, p, l>>] \o DiscoveryFrom(s, p + 1)

Discovery == DiscoveryFrom(1, 1)

DetailSucceeded(t) == t \in detailOK

\* the Record a successful fetch of each discovered link gives
DiscoveredRecord ==
    [t \in {Discovery[i] : i \in 1..Len(Discovery)} |->
        MakeRecord(SiteLinks(t[1], t[2])[t[3]], SiteBase(t[1]),
                   PageText(SiteLinks(t[1], t[2])[t[3]].url))]

\* the six crawl fields of a record, whatever was attached to it later
BaseOf(rec) == [f \in DOMAIN rec \cap BaseFields |-> rec[f]]

\* every Record created so far, in the order main will merge them
Created ==
    IF pc \in {"crawl", "links"}
    THEN IF site = 1 THEN records ELSE sfc_records \o records
    ELSE sfc_records \o sec_records

CrawlDone == pc \notin {"crawl", "links"}

\* C1: every Record comes from a matched link whose entry page and whose own
\* detail page were both fetched successfully, and carries all six fields; a
\* failed fetch adds no Record, so there are never more Records than successful
\* detail fetches, and no detail page is fetched under a failed entry page.
C1_RecordsOnlyFromSuccessfulFetches ==
    /\ \A i \in 1..Len(Created) :
        /\ BaseFields \subseteq DOMAIN Created[i]
        /\ \E t \in detailOK :
            /\ <<t[1], t[2]>> \in entryOK
            /\ t[3] \in 1..Len(SiteLinks(t[1], t[2]))
            /\ Created[i].title = SiteLinks(t[1], t[2])[t[3]].title
            /\ Created[i].url = SiteLinks(t[1], t[2])[t[3]].url
            /\ Created[i].source = SiteBase(t[1])
    /\ Len(Created) <= Cardinality(detailOK)
    /\ \A t \in detailTried : <<t[1], t[2]>> \in entryOK
    /\ detailOK \subseteq detailTried
    /\ entryOK \subseteq entryTried

\* a crawl in which an entry fetch failed, a detail fetch failed and another
\* detail fetch under a good entry page produced a Record
C1_Witness ==
    /\ CrawlDone
    /\ entryTried \ entryOK # {}
    /\ detailTried \ detailOK # {}
    /\ Len(Created) >= 2

\* C2: a failed fetch skips only its own URL.  Once both crawls have returned,
\* every entry path was fetched whatever failed before it, every link of every
\* good entry page was fetched whatever its siblings did, each site's result
\* has exactly one Record per successful detail fetch (none when every entry
\* fetch failed), and the run is past the crawl, never stopped inside it.
C2_FailureIsolated ==
    /\ pc = "crashed" => entryTried = AllEntries
    /\ CrawlDone =>
        /\ entryTried = AllEntries
        /\ \A e \in entryOK : \A l \in 1..Len(SiteLinks(e[1], e[2])) :
               <<e[1], e[2], l>> \in detailTried
        /\ Len(sfc_records) = Cardinality({t \in detailOK : t[1] = 1})
        /\ Len(sec_records) = Cardinality({t \in detailOK : t[1] = 2})
        /\ entryOK = {} => (sfc_records = <<>> /\ sec_records = <<>>)

\* the first entry page failed and the first link of the next good page failed,
\* yet a later entry path and a sibling link still gave Records
C2_Witness ==
    /\ CrawlDone
    /\ <<1, 1>> \in entryTried \ entryOK
    /\ <<1, 2, 1>> \in detailOK
    /\ <<2, 1, 1>> \in detailTried \ detailOK
    /\ <<2, 2, 1>> \in detailOK
    /\ Len(sfc_records) = 1
    /\ Len(sec_records) = 1

\* C5: the Records are the successfully fetched links in discovery order (entry
\* paths in the given order, links in filter order), and the merged list is the
\* first site's Records followed by the second site's.
C5_DiscoveryOrder ==
    LET kept == SelectSeq(Discovery, DetailSucceeded)
        expected == [i \in 1..Len(kept) |-> DiscoveredRecord[kept[i]]]
    IN  /\ [i \in 1..Len(Created) |-> BaseOf(Created[i])] = expected
        /\ pc \notin {"crawl", "links", "merge"} =>
               [i \in 1..Len(all_records) |-> BaseOf(all_records[i])] = expected

\* both sites contributed, the first one two Records from one entry page
C5_Witness ==
    /\ pc = "save"
    /\ {<<1, 1, 1>>, <<1, 1, 2>>, <<2, 2, 1>>} \subseteq detailOK
    /\ Len(all_records) >= 3

----------------------------------------------------------------------------
(* Properties of the pipeline driver                                       *)

\* C3: main completes for every combination of fetch and embedding outcomes:
\* no failure, of a fetch, of a record's embedding or of the query's embedding,
\* leaves main as an exception.
C3_MainAlwaysCompletes == pc # "crashed"

\* the lists that hold Records: the merged list and the two it was built from
AllLists == <<all_records, sfc_records, sec_records>>

\* C4 as stated: records are serialized once, and once they are serialized no
\* Record is changed and no field is added to one.
C4_NoMutationAfterSerialize ==
    [][saved # <<>> => (saved' = saved /\ AllLists' = AllLists)]_vars

\* what may happen to a Record once the merged list is written: nothing, or
\* the field `embedding` is attached or replaced
OnlyEmbeddingAttached(old, new) ==
    /\ Len(new) = Len(old)
    /\ \A i \in 1..Len(old) :
        /\ DOMAIN new[i] \subseteq DOMAIN old[i] \cup {"embedding"}
        /\ \A f \in DOMAIN old[i] : f # "embedding" => new[i][f] = old[i][f]

\* C4, amended: the Records are serialized exactly once, right after the merge
\* and before any enrichment; after the serialization step the only change to
\* a Record is build_embeddings attaching `embedding` in place (vector
\* strategy); no other field is added or changed, `score` is never attached to
\* them, and the written document holds the six crawl fields only.
C4_SerializedOnceThenOnlyEmbedding ==
    /\ [](Len(saved) <= 1)
    /\ [](pc \in {"embed", "search", "fallback", "print", "done", "crashed"}
            => Len(saved) = 1)
    /\ [](\A d \in 1..Len(saved) : \A i \in 1..Len(saved[d]) :
            DOMAIN saved[d][i] = BaseFields)
    /\ [][saved # <<>> =>
            /\ saved' = saved
            /\ OnlyEmbeddingAttached(all_records, all_records')
            /\ OnlyEmbeddingAttached(sfc_records, sfc_records')
            /\ OnlyEmbeddingAttached(sec_records, sec_records')
            /\ (AllLists' # AllLists => pc = "embed")]_vars

\* a finished run of the vector strategy: the Records carry embeddings that
\* the one written document does not
C4_Witness ==
    /\ pc = "done"
    /\ Len(saved) = 1
    /\ Len(all_records) >= 2
    /\ \E i \in 1..Len(all_records) :
        /\ "embedding" \in DOMAIN all_records[i]
        /\ "embedding" \notin DOMAIN saved[1][i]

\* build_embeddings has visited every record
EmbeddingsBuilt == jina_api_key # "" /\ pc \in {"search", "print", "done", "crashed"}

\* C7: a failed embed call does not end the batch.  After build_embeddings
\* every record has an embedding, empty exactly where the call failed, also
\* behind a failed one; and an empty embedding scores 0 against every query
\* vector, in the scored list and in the hits.
C7_EmbeddingFailureIsolated ==
    /\ EmbeddingsBuilt =>
        /\ embFailed \subseteq 1..Len(all_records)
        /\ \A i \in 1..Len(all_records) :
            /\ "embedding" \in DOMAIN all_records[i]
            /\ all_records[i].embedding = <<>> <=> i \in embFailed
            /\ all_records[i].embedding = <<>> =>
                   \A v \in EmbedVectors : JinaScored(all_records, v)[i].score = 0
    /\ (jina_api_key # "" /\ pc \in {"print", "done"}) =>
        \A h \in 1..Len(top_hits) :
            top_hits[h].embedding = <<>> => top_hits[h].score = 0

\* the first embed call failed, a later one succeeded, and the ranking put a
\* record with a positive score before the one with the empty embedding
C7_Witness ==
    /\ pc = "print"
    /\ jina_api_key # ""
    /\ 1 \in embFailed
    /\ \E j \in 2..Len(all_records) : all_records[j].embedding \in EmbedVectors
    /\ Len(top_hits) >= 2
    /\ top_hits[1].score > 0
    /\ \E h \in 2..Len(top_hits) : top_hits[h].embedding = <<>> /\ top_hits[h].score = 0

NoScoreIn(list) == \A i \in 1..Len(list) : "score" \notin DOMAIN list[i]

\* C10: ranking leaves its input alone.  A ranking step changes neither the
\* record list it was given (length, order, fields) nor the lists it was built
\* from nor the written document, and no base record, in memory or written,
\* ever has a `score`; the hits are the ones that carry it.
C10_RankingLeavesInputUnchanged ==
    /\ [][(pc = "search" \/ pc = "fallback")
              => (AllLists' = AllLists /\ saved' = saved)]_vars
    /\ [](/\ NoScoreIn(all_records) /\ NoScoreIn(sfc_records) /\ NoScoreIn(sec_records)
          /\ NoScoreIn(records)
          /\ \A d \in 1..Len(saved) : NoScoreIn(saved[d]))
    /\ [](pc \in {"print", "done"} =>
            \A h \in 1..Len(top_hits) : "score" \in DOMAIN top_hits[h])

\* a ranking call has returned scored hits for a list of several records
C10_Witness ==
    /\ pc = "print"
    /\ Len(all_records) >= 2
    /\ Len(top_hits) = Len(all_records)
    /\ \E h \in 1..Len(top_hits) : top_hits[h].score > 0
    /\ NoScoreIn(all_records)

----------------------------------------------------------------------------
(* Properties of the rankers                                               *)

Ranked == pc \in {"print", "done"}

\* the scored copies the strategy that ran has sorted
Scored ==
    IF jina_api_key # "" THEN JinaScored(all_records, query_vec)
    ELSE KeywordScored(all_records, query)

\* the place of element i in the stable descending order: behind every element
\* with a larger score and behind the earlier ones with the same score
StablePlace(sc, i) ==
    1 + Cardinality({j \in 1..Len(sc) :
                        \/ sc[j].score > sc[i].score
                        \/ (sc[j].score = sc[i].score /\ j < i)})

StableDescending(sc) ==
    [r \in 1..Len(sc) |-> sc[CHOOSE i \in 1..Len(sc) : StablePlace(sc, i) = r]]

RankedAsClaimed ==
    /\ Len(top_hits) = Min(top_k, Len(all_records))
    /\ \A i \in 1..Len(top_hits) : \A j \in i..Len(top_hits) :
           top_hits[i].score >= top_hits[j].score
    /\ top_hits = SubSeq(StableDescending(Scored), 1, Min(top_k, Len(all_records)))

\* C6 as stated: for both strategies, every record list and every integer
\* top_k, the result has min(top_k, len(records)) elements, non-increasing
\* scores, and is the head of the stable descending sort of the input.
C6_RankedForEveryTopK == Ranked => RankedAsClaimed

\* C6, amended: the same for every top_k >= 0 (a negative top_k is a slice
\* from the end and leaves max(len(records) + top_k, 0) elements).
C6_RankedForNonNegativeTopK ==
    /\ (Ranked /\ top_k >= 0) => RankedAsClaimed
    /\ (Ranked /\ top_k < 0) =>
           top_hits = SubSeq(StableDescending(Scored), 1, Len(all_records) + top_k)

\* a truncating call: the first record of the input scores lowest and is cut
\* off, the two behind it have one score and stay in input order
C6_Witness ==
    /\ pc = "print"
    /\ Len(all_records) = 3
    /\ top_k = 2
    /\ Len(top_hits) = 2
    /\ top_hits[1].score = top_hits[2].score
    /\ top_hits[1].title # top_hits[2].title
    /\ top_hits[1].title = all_records[2].title
    /\ top_hits[2].title = all_records[3].title
    /\ Scored[1].score < top_hits[2].score

\* the start positions of q in t
Occurrences(t, q) == {i \in 1..(Len(t) - Len(q) + 1) : SubSeq(t, i, i + Len(q) - 1) = q}

\* the largest number of occurrences of q in t no two of which overlap
MaxNonOverlapping(t, q) ==
    LET fits == {S \in SUBSET Occurrences(t, q) :
                    \A i \in S : \A j \in S : i < j => i + Len(q) <= j}
    IN  CHOOSE n \in 0..Len(t) :
            /\ \E S \in fits : Cardinality(S) = n
            /\ \A S \in fits : Cardinality(S) <= n

\* C9: for a non-empty query the lexical score of a record is the number of
\* non-overlapping occurrences of the lowercased query as a contiguous
\* substring of the lowercased clean_text.
C9_LexicalScoreCountsSubstrings ==
    (Ranked /\ jina_api_key = "" /\ query # <<>>) =>
        /\ \A h \in 1..Len(top_hits) :
               top_hits[h].score =
                   MaxNonOverlapping(Lower(top_hits[h].clean_text), Lower(query))
        /\ \A i \in 1..Len(all_records) :
               KeywordScored(all_records, query)[i].score =
                   MaxNonOverlapping(Lower(all_records[i].clean_text), Lower(query))

\* the query "A b" found twice in "a b A B" and not at all in "b a", which has
\* both of its words
C9_Witness ==
    /\ pc = "print"
    /\ jina_api_key = ""
    /\ query = <<"A", " ", "b">>
    /\ \E h \in 1..Len(top_hits) : top_hits[h].score = 2
    /\ \E h \in 1..Len(top_hits) :
        /\ top_hits[h].clean_text = <<"b", " ", "a">>
        /\ top_hits[h].score = 0

----------------------------------------------------------------------------
(* Properties of the Link Filter                                           *)

\* the anchors the filter is to keep: a non-empty href, and some lowercased
\* keyword inside the lowercased "title + space + resolved URL"
Kept ==
    {i \in 1..Len(anchors) :
        /\ "href" \in DOMAIN anchors[i]
        /\ anchors[i].href # <<>>
        /\ \E k \in 1..Len(keywords) :
               Contains(Lower(Strip(anchors[i].text) \o <<" ">>
                              \o Urljoin(base_url, anchors[i].href)),
                        Lower(keywords[k]))}

\* the n-th kept anchor in encounter order
NthKept(n) == CHOOSE i \in Kept : Cardinality({j \in Kept : j < i}) = n - 1

====
